---------------------------- MODULE Spec2Model ----------------------------
(***************************************************************************)
(* A model of the EventSource client of src/mod.ts: the line tokenizer     *)
(* (readerToLines), the event field parser (#interpretLines), the          *)
(* connection state machine (#connect, #reconnect, #abort, close) and the  *)
(* timer tasks it queues with queueTask (setTimeout).                      *)
(*                                                                         *)
(* Text is a sequence of one-character strings; a response body is a      *)
(* sequence of bytes (numbers), as the reader delivers Uint8Array chunks.  *)
(***************************************************************************)
EXTENDS Integers, Sequences, FiniteSets, TLC

(***************************************************************************)
(* Bounds of the model.                                                    *)
(***************************************************************************)
\* responses (or network failures) the server side produces in one run
MaxResponses == 2
\* close() calls of the user in one run (from outside or from a handler)
MaxCloseCalls == 2

(***************************************************************************)
(* ReadyState (src/mod.ts:322-338).                                        *)
(***************************************************************************)
CONNETING == 0
OPEN == 1
CLOSED == 2

(***************************************************************************)
(* Bytes and text.  lf, cr and nil are the char codes of src/mod.ts.       *)
(***************************************************************************)
lf == 10
cr == 13
nil == 0

Lower == <<"a","b","c","d","e","f","g","h","i","j","k","l","m",
           "n","o","p","q","r","s","t","u","v","w","x","y","z">>
Upper == <<"A","B","C","D","E","F","G","H","I","J","K","L","M",
           "N","O","P","Q","R","S","T","U","V","W","X","Y","Z">>
Digits == <<"0","1","2","3","4","5","6","7","8","9">>

\* the character U+0000 (TLA+ strings have no escape for it)
NulChar == "NUL"
\* U+FFFD, what TextDecoder yields for a byte that is no ASCII character
ReplacementChar == "U+FFFD"

\* The position of x in sequence s, 0 when absent.
PosIn(s, x) ==
    IF \E i \in 1..Len(s) : s[i] = x
    THEN CHOOSE i \in 1..Len(s) : s[i] = x
    ELSE 0

\* TextDecoder.decode of one byte (the ASCII range the model uses).
DecodeByte(b) ==
    CASE b = 0 -> NulChar
      [] b = 10 -> "\n"
      [] b = 13 -> "\r"
      [] b = 32 -> " "
      [] b = 58 -> ":"
      [] b \in 48..57 -> Digits[b - 47]
      [] b \in 65..90 -> Upper[b - 64]
      [] b \in 97..122 -> Lower[b - 96]
      [] OTHER -> ReplacementChar

\* decoder.decode(bytes): the text of a byte slice.
Decode(bytes) == [i \in 1..Len(bytes) |-> DecodeByte(bytes[i])]

\* The UTF-8 encoding of one character, as the server writes it.
EncodeChar(c) ==
    CASE c = NulChar -> 0
      [] c = "\n" -> 10
      [] c = "\r" -> 13
      [] c = " " -> 32
      [] c = ":" -> 58
      [] PosIn(Digits, c) > 0 -> 47 + PosIn(Digits, c)
      [] PosIn(Upper, c) > 0 -> 64 + PosIn(Upper, c)
      [] PosIn(Lower, c) > 0 -> 96 + PosIn(Lower, c)
      [] OTHER -> 63

Encode(text) == [i \in 1..Len(text) |-> EncodeChar(text[i])]

(***************************************************************************)
(* readerToLines (src/mod.ts:418-451).  One pass of the for loop over the  *)
(* buffer: index and lastIndex are the 0-based indexes of the code.        *)
(***************************************************************************)
RECURSIVE ScanBuffer(_, _, _, _)
ScanBuffer(buffer, index, lastIndex, lines) ==
    IF index >= Len(buffer)
    THEN [lines |-> lines, lastIndex |-> lastIndex]
    ELSE IF buffer[index + 1] \notin {lf, cr, nil}
    THEN ScanBuffer(buffer, index + 1, lastIndex, lines)
    ELSE LET line == Decode(SubSeq(buffer, lastIndex + 1, index))
         IN  IF buffer[index + 1] = nil
             THEN [lines |-> Append(lines, line), lastIndex |-> lastIndex]
             ELSE ScanBuffer(buffer, index + 1, index + 1, Append(lines, line))

\* One iteration of the while loop: a chunk `value` arrives with `lastBuffer`
\* left over; the lines yielded and the new lastBuffer.
ReadChunkLines(lastBuffer, value) ==
    LET buffer == lastBuffer \o value
        r == ScanBuffer(buffer, 0, 0, <<>>)
    IN  [lines |-> r.lines,
         lastBuffer |-> SubSeq(buffer, r.lastIndex + 1, Len(buffer))]

(***************************************************************************)
(* Strings of the parser.                                                  *)
(***************************************************************************)
EmptyText == <<>>
FieldEvent == <<"e","v","e","n","t">>
FieldData == <<"d","a","t","a">>
FieldId == <<"i","d">>
FieldRetry == <<"r","e","t","r","y">>
TypeMessage == <<"m","e","s","s","a","g","e">>

\* line.indexOf(c): the 0-based index of the first c, -1 when absent.
IndexOf(line, c) ==
    IF \E i \in 1..Len(line) : line[i] = c
    THEN (CHOOSE i \in 1..Len(line) :
              line[i] = c /\ \A j \in 1..(i - 1) : line[j] # c) - 1
    ELSE -1

\* value.replace(/^ /, "")
KeepLeadingSpace(value) == value
StripLeadingSpace(value) ==
    IF Len(value) > 0 /\ value[1] = " "
    THEN SubSeq(value, 2, Len(value))
    ELSE value

\* data.replace(/\n$/, "")
KeepTrailingLF(data) == data
StripTrailingLF(data) ==
    IF Len(data) > 0 /\ data[Len(data)] = "\n"
    THEN SubSeq(data, 1, Len(data) - 1)
    ELSE data

\* value.includes("\0")
IncludesNul(value) == \E i \in 1..Len(value) : value[i] = NulChar

\* /^[0-9]+$/.test(value)
IsAsciiDigits(value) ==
    /\ Len(value) > 0
    /\ \A i \in 1..Len(value) : PosIn(Digits, value[i]) > 0

\* parseInt(value) of a value made of ASCII digits
RECURSIVE ParseInt(_)
ParseInt(value) ==
    IF Len(value) = 0
    THEN 0
    ELSE 10 * ParseInt(SubSeq(value, 1, Len(value) - 1))
         + (PosIn(Digits, value[Len(value)]) - 1)

\* The local `eventID: string | undefined` of #interpretLines.
Undefined == [defined |-> FALSE, value |-> EmptyText]
Defined(value) == [defined |-> TRUE, value |-> value]
\* `if (eventID)`: undefined and "" are falsy.
Truthy(id) == id.defined /\ id.value # EmptyText

\* new MessageEvent(eventType, data, origin, lastEventID) (src/event.ts:27-36)
MessageEventRawType(eventType, data, origin, lastEventID) ==
    [kind |-> "message", type |-> eventType, data |-> data, origin |-> origin,
     lastEventID |-> lastEventID]
MessageEvent(eventType, data, origin, lastEventID) ==
    [kind |-> "message",
     type |-> IF eventType = EmptyText THEN TypeMessage ELSE eventType,
     data |-> data,
     origin |-> origin,
     lastEventID |-> lastEventID]

\* new OpenEvent() and new ErrorEvent(err) (src/event.ts:6-25)
OpenEvent == [kind |-> "open"]
ErrorEvent(err) == [kind |-> "error", err |-> err]

(***************************************************************************)
(* #interpretLines (src/mod.ts:140-211): the body of the for-await loop    *)
(* for one line.  st holds the locals eventID, eventType and data, the     *)
(* fields #lastEventID and #reconnectionTime, and `events`, the            *)
(* MessageEvents handed to queueTask so far.                               *)
(***************************************************************************)
\* the empty line: the end of the current event (src/mod.ts:150-178)
InterpretBoundaryResetsId(st, origin) ==
    IF st.data = EmptyText
    THEN [st EXCEPT !.eventType = EmptyText, !.eventID = Undefined]
    ELSE LET data == StripTrailingLF(st.data)
             lastID == IF Truthy(st.eventID)
                       THEN st.eventID.value
                       ELSE st.lastEventID
         IN  [st EXCEPT !.lastEventID = lastID,
                        !.data = EmptyText,
                        !.eventType = EmptyText,
                        !.eventID = Undefined,
                        !.events = Append(@,
                            MessageEvent(st.eventType, data, origin, lastID))]

InterpretBoundary(st, origin) ==
    IF st.data = EmptyText
    THEN [st EXCEPT !.eventType = EmptyText]
    ELSE LET data == StripTrailingLF(st.data)
             lastID == IF Truthy(st.eventID)
                       THEN st.eventID.value
                       ELSE st.lastEventID
         IN  [st EXCEPT !.lastEventID = lastID,
                        !.data = EmptyText,
                        !.eventType = EmptyText,
                        !.events = Append(@,
                            MessageEvent(st.eventType, data, origin, lastID))]

\* a field line (src/mod.ts:180-209)
InterpretFieldAsData(st, line) == [st EXCEPT !.data = st.data \o line \o <<"\n">>]
InterpretField(st, line) ==
    LET firstColonPos == IndexOf(line, ":")
        field == IF firstColonPos > 0
                 THEN SubSeq(line, 1, firstColonPos)
                 ELSE line
        value == IF firstColonPos > 0
                 THEN StripLeadingSpace(SubSeq(line, firstColonPos + 2, Len(line)))
                 ELSE EmptyText
    IN  IF firstColonPos = 0 THEN st
        ELSE IF field = FieldEvent THEN [st EXCEPT !.eventType = value]
        ELSE IF field = FieldData
             THEN [st EXCEPT !.data = st.data \o value \o <<"\n">>]
        ELSE IF field = FieldId
             THEN IF IncludesNul(value) THEN st
                  ELSE [st EXCEPT !.eventID = Defined(value)]
        ELSE IF field = FieldRetry
             THEN IF ~IsAsciiDigits(value) THEN st
                  ELSE [st EXCEPT !.reconnectionTime = ParseInt(value)]
        ELSE st

InterpretLine(st, line, origin) ==
    IF line = EmptyText
    THEN InterpretBoundary(st, origin)
    ELSE InterpretField(st, line)

\* the entry of #interpretLines (src/mod.ts:144-146): each call declares its
\* own eventID, eventType and data; #lastEventID and #reconnectionTime are
\* fields of the object and stay as they are
InterpretLinesEntryKeeps(st) == st
InterpretLinesEntry(st) ==
    [st EXCEPT !.eventID = Undefined, !.eventType = EmptyText, !.data = EmptyText]

RECURSIVE InterpretLines(_, _, _)
InterpretLines(st, lines, origin) ==
    IF lines = <<>>
    THEN st
    ELSE InterpretLines(InterpretLine(st, Head(lines), origin), Tail(lines), origin)

(***************************************************************************)
(* What the server side sends.  A response is its status, its Content-Type *)
(* and its body (hasBody = FALSE: response.body is null).                  *)
(***************************************************************************)
EventStream == "text/event-stream"
TextHtml == "text/html"

\* "data:msg\ndata:msg\n\ndata:\n\ndata:end\n\n"
ScenarioText ==
    <<"d","a","t","a",":","m","s","g","\n",
      "d","a","t","a",":","m","s","g","\n","\n",
      "d","a","t","a",":","\n","\n",
      "d","a","t","a",":","e","n","d","\n","\n">>
\* "id:1\ndata:a\n\ndata:b\n\n"
IdText ==
    <<"i","d",":","1","\n","d","a","t","a",":","a","\n","\n",
      "d","a","t","a",":","b","\n","\n">>

\* "retry:x\nretry:\nretry:1001\n"
RetryText ==
    <<"r","e","t","r","y",":","x","\n",
      "r","e","t","r","y",":","\n",
      "r","e","t","r","y",":","1","0","0","1","\n">>
\* "retry:500\ndata:a\n\n"
RetryDataText ==
    <<"r","e","t","r","y",":","5","0","0","\n",
      "d","a","t","a",":","a","\n","\n">>

ScenarioBody == Encode(ScenarioText)
IdBody == Encode(IdText)
RetryBodies == {Encode(RetryText), Encode(RetryDataText)}

\* a 200 text/event-stream response with the given body
Accepted(b) ==
    [status |-> 200, contentType |-> EventStream, hasBody |-> TRUE, body |-> b]

ServerResponses ==
    {Accepted(IdBody)}
    \cup [status : {200}, contentType : {EventStream}, hasBody : {FALSE}, body : {<<>>}]
    \cup [status : {200}, contentType : {TextHtml}, hasBody : {TRUE}, body : {IdBody}]
    \cup [status : {204}, contentType : {TextHtml}, hasBody : {FALSE}, body : {<<>>}]
    \cup [status : {404}, contentType : {EventStream, TextHtml}, hasBody : {TRUE},
          body : {IdBody}]

\* response.url, the origin of the MessageEvents
Origin == "url"

\* the reasons of the ErrorEvents
ErrClosed == "Connection Closed"
ErrReconnecting == "Reconnecting"
ErrStatus == "status"
ErrContentType == "content-type"

(***************************************************************************)
(* The state.                                                              *)
(***************************************************************************)
VARIABLES
    readyState,        \* #readyState
    lastEventID,       \* #lastEventID
    reconnectionTime,  \* #reconnectionTime
    aborted,           \* #controller.signal.aborted
    pc,                \* where the #connect / #reconnect chain stands
    queue,             \* the timers set by queueTask and sleep, oldest first
    body,              \* bytes of the response body the server has yet to deliver
    lastBuffer,        \* readerToLines: lastBuffer
    eventID,           \* #interpretLines: eventID
    eventType,         \* #interpretLines: eventType
    data,              \* #interpretLines: data
    requests,          \* the fetch calls made: their headers
    delivered,         \* the dispatchEvent calls made: what subscribers saw
    parsed,            \* MessageEvents constructed so far
    closeLog,          \* the close() calls made
    responseLog,       \* the responses received
    endLog,            \* the ends of body streams seen by #reconnect
    server,            \* the responses the server may give, and how many
    lines,             \* #interpretLines: the lines its generator yields
    lineNo,            \* #interpretLines: how many of them were interpreted
    on,                \* onopen, onmessage and onerror
    listeners,         \* #listeners of the three EventTargets
    removed,           \* the latest removeEventListener call, if no listener
                       \* was added since: its arguments, the list it found
    dispatched         \* the latest dispatchEvent call, if the registry did not
                       \* change since: its event, the listeners it invoked,
                       \* what it returned

vars == <<readyState, lastEventID, reconnectionTime, aborted, pc, queue, body,
          lastBuffer, eventID, eventType, data, requests, delivered, parsed,
          closeLog, responseLog, endLog, server,
          lines, lineNo, on, listeners, removed, dispatched>>

parserVars == <<lastBuffer, eventID, eventType, data>>
sessionVars == <<lastEventID, reconnectionTime>>
lineVars == <<lines, lineNo>>
registryVars == <<on, listeners, removed, dispatched>>
machineVars == <<readyState, lastEventID, reconnectionTime, aborted, pc, queue,
                 body, lastBuffer, eventID, eventType, data, requests, delivered,
                 parsed, closeLog, responseLog, endLog, server>>

(***************************************************************************)
(* queueTask (src/mod.ts:390-392): setTimeout(task, 0).  Timers of equal   *)
(* delay fire in the order they were set.                                  *)
(***************************************************************************)
EnqueueFront(q, task) == <<task>> \o q
Enqueue(q, task) == Append(q, task)

RECURSIVE EnqueueAll(_, _)
EnqueueAll(q, tasks) ==
    IF tasks = <<>> THEN q ELSE EnqueueAll(Enqueue(q, Head(tasks)), Tail(tasks))

Remove(q, i) == SubSeq(q, 1, i - 1) \o SubSeq(q, i + 1, Len(q))

\* The timers that may fire next: the oldest one, or, when the oldest is the
\* sleep of #reconnect with a positive delay, the zero-delay timer set after it.
Runnable(q) ==
    IF q = <<>> THEN {}
    ELSE IF q[1].kind = "sleep" /\ q[1].delay.whole > 0 /\ Len(q) >= 2 THEN {1, 2}
    ELSE {1}

AnnounceTask == [kind |-> "announce"]
AbortTask(err) == [kind |-> "abort", err |-> err]
SleepTask(delay) == [kind |-> "sleep", delay |-> delay]
ReconnectTask == [kind |-> "reconnect"]
DispatchTask(event, serial, closes) ==
    [kind |-> "dispatch", event |-> event, serial |-> serial, closes |-> closes]

(***************************************************************************)
(* get headers (src/mod.ts:81-87)                                          *)
(***************************************************************************)
HeadersAcceptOnly(id) == [h \in {"Accept"} |-> EventStream]
Headers(id) ==
    IF id # EmptyText
    THEN [h \in {"Accept", "Last-Event-ID"} |->
             IF h = "Accept" THEN EventStream ELSE id]
    ELSE [h \in {"Accept"} |-> EventStream]

\* fetch(url, {..., headers: this.headers}) (src/mod.ts:59-65), with the
\* #lastEventID of the moment
Request(id) == [headers |-> Headers(id), lastEventID |-> id]

(***************************************************************************)
(* #reconnectBackoff (src/mod.ts:257-263): ((t / 1000) ^ counter) * 1000,  *)
(* computed on IEEE 754 doubles, for the counter the code never changes.   *)
(* The result is a double next to a whole number of milliseconds: that     *)
(* number (ulps = 0), or the double right below (-1) or above (1) it.      *)
(***************************************************************************)
backoffCounter == 1
DefaultReconnectionTime == 1000

Double(whole, ulps) == [whole |-> whole, ulps |-> ulps]

Abs(x) == IF x < 0 THEN -x ELSE x

\* the position of the leading bit of n >= 1
RECURSIVE Log2(_)
Log2(n) == IF n <= 1 THEN 0 ELSE 1 + Log2(n \div 2)

\* 2^k modulo 1000
RECURSIVE Pow2Mod1000(_)
Pow2Mod1000(k) == IF k = 0 THEN 1 ELSE (2 * Pow2Mod1000(k - 1)) % 1000

\* (t / 1000) * 1000 for a whole t.  The quotient is rounded to 53 bits: in
\* units of 2^-k, where k puts it in [2^52, 2^53), it is t * 2^k / 1000 less
\* r / 1000 (r < 500) or plus (1000 - r) / 1000, with r = t * 2^k mod 1000.
\* The product is off t by r (or 1000 - r) of those units and is rounded to
\* 53 bits again: to t when the error is at most half an ulp of t, which is
\* 256 units when t / 1000 and t differ by 9 binary orders, 512 when by 10.
DivideMultiply(t) ==
    IF t = 0 THEN Double(0, 0)
    ELSE LET e == Log2(t)
             orders == IF t * 512 < 1000 * (2 ^ e) THEN 10 ELSE 9
             k == 52 - e + orders
             r == ((t % 1000) * Pow2Mod1000(k)) % 1000
         IN  IF orders = 10 \/ r <= 256 \/ r >= 744 THEN Double(t, 0)
             ELSE IF r < 500 THEN Double(t, -1)
             ELSE Double(t, 1)

\* Math.pow(x, 1) is x; another exponent is not reached (#backoffCounter is
\* never assigned) and is given its real value, rounded down
ReconnectBackoff(time, counter) ==
    IF counter = 1
    THEN DivideMultiply(Abs(time))
    ELSE Double(Abs((time ^ counter) \div (1000 ^ (counter - 1))), 0)

(***************************************************************************)
(* #rejectInvalidResponse (src/mod.ts:89-111): the #abort() calls it makes *)
(* itself, whether the promise is rejected, and with what.                 *)
(***************************************************************************)
Ok(status) == status \in 200..299

RejectOnlyContentType(response) ==
    IF response.status = 204
    THEN [aborts |-> <<ErrClosed>>, rejected |-> TRUE, err |-> ErrStatus]
    ELSE IF response.contentType # EventStream
    THEN [aborts |-> <<>>, rejected |-> TRUE, err |-> ErrContentType]
    ELSE [aborts |-> <<>>, rejected |-> FALSE, err |-> ""]

RejectInvalidResponse(response) ==
    IF response.status = 204
    THEN [aborts |-> <<ErrClosed>>, rejected |-> TRUE, err |-> ErrStatus]
    ELSE IF ~Ok(response.status) \/ response.status # 200
    THEN [aborts |-> <<>>, rejected |-> TRUE, err |-> ErrStatus]
    ELSE IF response.contentType # EventStream
    THEN [aborts |-> <<>>, rejected |-> TRUE, err |-> ErrContentType]
    ELSE [aborts |-> <<>>, rejected |-> FALSE, err |-> ""]

(***************************************************************************)
(* The guards of the deferred tasks.                                       *)
(***************************************************************************)
\* #announceConnection (src/mod.ts:118-121): the state after the task
AnnounceStateUnguarded(rs) == OPEN
AnnounceState(rs) == IF rs # CLOSED THEN OPEN ELSE rs
\* the queued dispatch of a MessageEvent (src/mod.ts:173-176)
DispatchDropsNever(rs) == FALSE
DispatchDrops(rs) == rs = CLOSED
\* the task of #abort (src/mod.ts:243-245)
AbortDispatchesAlways(rs) == TRUE
AbortDispatches(rs) == rs # CLOSED
\* the announcement of #reconnect (src/mod.ts:219-226)
ReconnectAborts(rs) == rs = CLOSED
\* the task of #reconnect (src/mod.ts:232-236)
ReconnectConnectsUnlessOpen(rs) == rs # OPEN
ReconnectConnects(rs) == rs = CONNETING

(***************************************************************************)
(* Subscribers.  A handler may call close() while it runs: dispatchEvent   *)
(* returns with the task of #abort queued.                                 *)
(***************************************************************************)
MayClose(c) == c => Len(closeLog) < MaxCloseCalls

\* A close() call: the readyState it found, and how many dispatchEvent calls
\* had been made (the one whose handler makes the call included).
CloseEntry(rs, inHandler) ==
    [readyState |-> rs,
     delivered |-> IF inHandler THEN Len(delivered) + 1 ELSE Len(delivered)]

Delivery(event, rs, serial, queuedCloses) ==
    [event |-> event, readyState |-> rs, serial |-> serial,
     queuedCloses |-> queuedCloses, closes |-> Len(closeLog)]

\* the queue after a handler ran, having called close() (c) or not
AfterHandler(q, c) == IF c THEN Enqueue(q, AbortTask(ErrClosed)) ELSE q

(***************************************************************************)
(* The listener registry: the fields onopen, onmessage and onerror, and    *)
(* the #listeners of #openEventTarget, #errorEventTarget and               *)
(* #messageEventTarget (src/mod.ts:265-272, src/event.ts:63).              *)
(***************************************************************************)
\* the three classes of event (src/event.ts:6-56)
Kinds == {"open", "error", "message"}
\* the event.type values and addEventListener types of the model: those of
\* OpenEvent, ErrorEvent and a MessageEvent without event field, and a custom one
TypeOpen == <<"o","p","e","n">>
TypeError == <<"e","r","r","o","r">>
TypeUpdate == <<"u","p","d","a","t","e">>
EventTypes == {TypeOpen, TypeError, TypeMessage, TypeUpdate}
\* the listener functions of the model; Unset: the field is undefined
Handlers == {"f", "g"}
\* the one assigned to the fields onopen, onmessage and onerror
SlotHandlers == {"f"}
Unset == "unset"
\* #listeners = {} (src/event.ts:63); a missing key reads as []
NoListeners == [t \in EventTypes |-> <<>>]

\* The state once the constructor has returned (src/mod.ts:46-56): the first
\* fetch is in flight.
Constructed ==
    /\ readyState = CONNETING
    /\ lastEventID = EmptyText
    /\ reconnectionTime = DefaultReconnectionTime
    /\ aborted = FALSE
    /\ pc = "fetching"
    /\ queue = <<>>
    /\ body = <<>>
    /\ lastBuffer = <<>>
    /\ eventID = Undefined
    /\ eventType = EmptyText
    /\ data = EmptyText
    /\ requests = <<Request(EmptyText)>>
    /\ delivered = <<>>
    /\ parsed = 0
    /\ closeLog = <<>>
    /\ responseLog = <<>>
    /\ endLog = <<>>
    /\ lines = <<>>
    /\ lineNo = 0
    /\ on = [k \in Kinds |-> Unset]
    /\ listeners = [k \in Kinds |-> NoListeners]
    /\ removed = <<>>
    /\ dispatched = <<>>

\* Any of ServerResponses, MaxResponses times.
Init ==
    /\ Constructed
    /\ server = [responses |-> ServerResponses, limit |-> MaxResponses]

\* One connection, whose response is accepted and carries the scenario's body.
InitScenario ==
    /\ Constructed
    /\ server = [responses |-> {Accepted(ScenarioBody)}, limit |-> 1]

(***************************************************************************)
(* #reconnect (src/mod.ts:216-230), up to the await of sleep: the          *)
(* announcement runs at once (queueMicrotask of src/mod.ts:401-409 calls   *)
(* its argument inside the Promise executor), then the sleep timer is set. *)
(* c: the error handler calls close().                                     *)
(***************************************************************************)
ReconnectQueue(q, rs, c) ==
    LET announced == IF ReconnectAborts(rs)
                     THEN Enqueue(q, AbortTask(ErrClosed))
                     ELSE AfterHandler(q, c)
    IN  Enqueue(announced, SleepTask(ReconnectBackoff(reconnectionTime, backoffCounter)))

ReconnectState(rs) == IF ReconnectAborts(rs) THEN rs ELSE CONNETING

ReconnectDelivered(d, rs) ==
    IF ReconnectAborts(rs)
    THEN d
    ELSE Append(d, Delivery(ErrorEvent(ErrReconnecting), CONNETING, 0, Len(closeLog)))

ReconnectCloseLog(cl, rs, c) ==
    IF ~ReconnectAborts(rs) /\ c
    THEN Append(cl, CloseEntry(CONNETING, TRUE))
    ELSE cl

EndEntry(rs) ==
    [requests |-> Len(requests), readyState |-> rs, delivered |-> Len(delivered),
     closes |-> Len(closeLog)]

(***************************************************************************)
(* The fetch of #connect resolves (src/mod.ts:59-76): the response is      *)
(* checked, and either #abort(e) is called or the announcement is queued   *)
(* and #processResonse starts to read the body.                            *)
(***************************************************************************)
Response ==
    /\ pc = "fetching"
    /\ Len(responseLog) < server.limit
    /\ \E response \in server.responses :
          LET rej == RejectInvalidResponse(response)
              inner == EnqueueAll(queue, [i \in 1..Len(rej.aborts) |->
                                             AbortTask(rej.aborts[i])])
          IN  /\ responseLog' = Append(responseLog,
                    [status |-> response.status,
                     contentType |-> response.contentType,
                     hasBody |-> response.hasBody,
                     delivered |-> Len(delivered),
                     requests |-> Len(requests)])
              /\ IF rej.rejected
                 THEN /\ queue' = Enqueue(inner, AbortTask(rej.err))
                      /\ pc' = "done"
                      /\ UNCHANGED <<body, parserVars>>
                 ELSE /\ queue' = Enqueue(inner, AnnounceTask)
                      /\ IF response.hasBody
                         THEN /\ pc' = "reading"
                              /\ body' = response.body
                              /\ lastBuffer' = <<>>
                              /\ LET st == InterpretLinesEntry(
                                               [eventID |-> eventID,
                                                eventType |-> eventType,
                                                data |-> data,
                                                lastEventID |-> lastEventID,
                                                reconnectionTime |-> reconnectionTime,
                                                events |-> <<>>])
                                 IN  /\ eventID' = st.eventID
                                     /\ eventType' = st.eventType
                                     /\ data' = st.data
                         ELSE /\ pc' = "rejected"
                              /\ UNCHANGED <<body, parserVars>>
    /\ UNCHANGED <<readyState, sessionVars, aborted, requests, delivered, parsed,
                   closeLog, endLog, server,
                   lineVars, registryVars>>

\* fetch rejects (a network error): #connect has no handler for it
NetworkError ==
    /\ pc = "fetching"
    /\ Len(responseLog) < server.limit
    /\ pc' = "rejected"
    /\ UNCHANGED <<readyState, sessionVars, aborted, queue, body, parserVars,
                   requests, delivered, parsed, closeLog, responseLog, endLog, server,
                   lineVars, registryVars>>

(***************************************************************************)
(* reader.read() resolves with a chunk of n bytes (src/mod.ts:424-449);    *)
(* the lines it completes are interpreted (src/mod.ts:148-210) and one     *)
(* dispatch task is queued for each MessageEvent.                          *)
(***************************************************************************)
ReadChunk ==
    /\ pc = "reading"
    /\ body # <<>>
    /\ \E n \in 1..Len(body) :
          LET r == ReadChunkLines(lastBuffer, SubSeq(body, 1, n))
              st == InterpretLines(
                        [eventID |-> eventID, eventType |-> eventType,
                         data |-> data, lastEventID |-> lastEventID,
                         reconnectionTime |-> reconnectionTime,
                         events |-> <<>>],
                        r.lines, Origin)
          IN  /\ body' = SubSeq(body, n + 1, Len(body))
              /\ lastBuffer' = r.lastBuffer
              /\ eventID' = st.eventID
              /\ eventType' = st.eventType
              /\ data' = st.data
              /\ lastEventID' = st.lastEventID
              /\ reconnectionTime' = st.reconnectionTime
              /\ parsed' = parsed + Len(st.events)
              /\ queue' = EnqueueAll(queue, [i \in 1..Len(st.events) |->
                              DispatchTask(st.events[i], parsed + i, Len(closeLog))])
    /\ UNCHANGED <<readyState, aborted, pc, requests, delivered, closeLog,
                   responseLog, endLog, server,
                   lineVars, registryVars>>

\* `await this.#processResonse(response)` (src/mod.ts:76) is over when
\* reader.read() has resolved with done (src/mod.ts:425-426): no byte is left
ProcessedAlways(b) == TRUE
Processed(b) == b = <<>>

\* reader.read() resolves with done: the server ended the body.  #interpretLines
\* and #processResonse return and #reconnect runs up to its sleep.
StreamEnd ==
    /\ pc = "reading"
    /\ Processed(body)
    /\ \E c \in BOOLEAN :
          /\ MayClose(c)
          /\ queue' = ReconnectQueue(queue, readyState, c)
          /\ closeLog' = ReconnectCloseLog(closeLog, readyState, c)
    /\ readyState' = ReconnectState(readyState)
    /\ delivered' = ReconnectDelivered(delivered, readyState)
    /\ endLog' = Append(endLog, EndEntry(readyState))
    /\ pc' = "sleeping"
    /\ UNCHANGED <<sessionVars, aborted, body, parserVars, requests, parsed,
                   responseLog, server,
                   lineVars, registryVars>>

\* reader.read() rejects: the rejection passes through #interpretLines,
\* #processResonse and #connect, none of which handles it
ReadError ==
    /\ pc = "reading"
    /\ pc' = "rejected"
    /\ UNCHANGED <<readyState, sessionVars, aborted, queue, body, parserVars,
                   requests, delivered, parsed, closeLog, responseLog, endLog, server,
                   lineVars, registryVars>>

(***************************************************************************)
(* close() (src/mod.ts:250-252), called by the user outside any handler:   *)
(* #abort() queues its task.                                               *)
(***************************************************************************)
Close ==
    /\ Len(closeLog) < MaxCloseCalls
    /\ closeLog' = Append(closeLog, CloseEntry(readyState, FALSE))
    /\ queue' = Enqueue(queue, AbortTask(ErrClosed))
    /\ UNCHANGED <<readyState, sessionVars, aborted, pc, body, parserVars,
                   requests, delivered, parsed, responseLog, endLog, server,
                   lineVars, registryVars>>

(***************************************************************************)
(* The timers fire.                                                        *)
(***************************************************************************)
\* #announceConnection (src/mod.ts:118-123)
RunAnnounce ==
    \E i \in Runnable(queue) :
       /\ queue[i].kind = "announce"
       /\ \E c \in BOOLEAN :
             /\ MayClose(c)
             /\ queue' = AfterHandler(Remove(queue, i), c)
             /\ closeLog' = IF c
                            THEN Append(closeLog,
                                        CloseEntry(AnnounceState(readyState), TRUE))
                            ELSE closeLog
       /\ readyState' = AnnounceState(readyState)
       /\ delivered' = Append(delivered,
              Delivery(OpenEvent, AnnounceState(readyState), 0, Len(closeLog)))
       /\ UNCHANGED <<sessionVars, aborted, pc, body, parserVars, requests,
                      parsed, responseLog, endLog, server,
                   lineVars, registryVars>>

\* the queued dispatch of a MessageEvent (src/mod.ts:173-176)
RunDispatch ==
    \E i \in Runnable(queue) :
       /\ queue[i].kind = "dispatch"
       /\ \E c \in BOOLEAN :
             /\ MayClose(c)
             /\ DispatchDrops(readyState) => ~c
             /\ queue' = AfterHandler(Remove(queue, i), c)
             /\ closeLog' = IF c
                            THEN Append(closeLog, CloseEntry(readyState, TRUE))
                            ELSE closeLog
       /\ delivered' = IF DispatchDrops(readyState)
                       THEN delivered
                       ELSE Append(delivered,
                                Delivery(queue[i].event, readyState,
                                         queue[i].serial, queue[i].closes))
       /\ UNCHANGED <<readyState, sessionVars, aborted, pc, body, parserVars,
                      requests, parsed, responseLog, endLog, server,
                   lineVars, registryVars>>

(***************************************************************************)
(* The task of #abort (src/mod.ts:241-247).  The first controller.abort()  *)
(* rejects a pending fetch and cancels the reader (src/mod.ts:130-132).    *)
(* What the pending read() of a cancelled reader does is up to the         *)
(* runtime: it resolves with done (the reader's cancel) or rejects (the    *)
(* fetch's own abort of the body); with done, #reconnect runs once the     *)
(* task has returned.                                                      *)
(***************************************************************************)
RunAbort ==
    \E i \in Runnable(queue) :
       /\ queue[i].kind = "abort"
       /\ \E c \in BOOLEAN, outcome \in {"done", "error"} :
             LET dispatches == AbortDispatches(readyState)
                 q1 == AfterHandler(Remove(queue, i), c)
                 d1 == IF dispatches
                       THEN Append(delivered,
                                Delivery(ErrorEvent(queue[i].err), readyState, 0,
                                         Len(closeLog)))
                       ELSE delivered
                 cl1 == IF c THEN Append(closeLog, CloseEntry(readyState, TRUE))
                        ELSE closeLog
                 cancels == ~aborted /\ pc = "reading"
             IN  /\ MayClose(c)
                 /\ ~dispatches => ~c
                 /\ ~(cancels /\ outcome = "done") => outcome = "error"
                 /\ aborted' = TRUE
                 /\ IF cancels /\ outcome = "done"
                    THEN /\ pc' = "sleeping"
                         /\ body' = <<>>
                         /\ queue' = ReconnectQueue(q1, CLOSED, FALSE)
                         /\ readyState' = ReconnectState(CLOSED)
                         /\ delivered' = ReconnectDelivered(d1, CLOSED)
                         /\ closeLog' = cl1
                         /\ endLog' = Append(endLog, EndEntry(CLOSED))
                    ELSE /\ pc' = IF ~aborted /\ pc \in {"fetching", "reading"}
                                  THEN "rejected"
                                  ELSE pc
                         /\ body' = IF cancels THEN <<>> ELSE body
                         /\ queue' = q1
                         /\ readyState' = CLOSED
                         /\ delivered' = d1
                         /\ closeLog' = cl1
                         /\ endLog' = endLog
       /\ UNCHANGED <<sessionVars, parserVars, requests, parsed, responseLog, server,
                   lineVars, registryVars>>

\* the sleep of #reconnect is over (src/mod.ts:228-236): its task is queued
RunSleep ==
    \E i \in Runnable(queue) :
       /\ i = 1
       /\ queue[i].kind = "sleep"
       /\ queue' = Enqueue(Remove(queue, i), ReconnectTask)
       /\ pc' = "waitTask"
       /\ UNCHANGED <<readyState, sessionVars, aborted, body, parserVars,
                      requests, delivered, parsed, closeLog, responseLog, endLog, server,
                   lineVars, registryVars>>

\* the task of #reconnect (src/mod.ts:232-236): #connect() issues the fetch
RunReconnect ==
    \E i \in Runnable(queue) :
       /\ queue[i].kind = "reconnect"
       /\ queue' = Remove(queue, i)
       /\ IF ReconnectConnects(readyState)
          THEN /\ requests' = Append(requests, Request(lastEventID))
               /\ pc' = "fetching"
          ELSE /\ requests' = requests
               /\ pc' = "done"
       /\ UNCHANGED <<readyState, sessionVars, aborted, body, parserVars,
                      delivered, parsed, closeLog, responseLog, endLog, server,
                   lineVars, registryVars>>

Tasks == RunAnnounce \/ RunDispatch \/ RunAbort \/ RunSleep \/ RunReconnect

Next ==
    \/ Response
    \/ NetworkError
    \/ ReadChunk
    \/ StreamEnd
    \/ ReadError
    \/ Close
    \/ RunAnnounce
    \/ RunDispatch
    \/ RunAbort
    \/ RunSleep
    \/ RunReconnect

Spec == Init /\ [][Next]_vars

\* The event loop runs every timer that is due.
FairSpec == Init /\ [][Next]_vars /\ WF_vars(Tasks)

\* The scenario's stream over one connection.
ScenarioSpec == InitScenario /\ [][Next]_vars

\* A server whose every response is accepted and carries one of RetryBodies.
InitRetry ==
    /\ Constructed
    /\ \E b \in RetryBodies :
          server = [responses |-> {Accepted(b)}, limit |-> MaxResponses]

RetrySpec == InitRetry /\ [][Next]_vars

(***************************************************************************)
(* #interpretLines alone (src/mod.ts:140-211), one line at a time, over    *)
(* every sequence of at most MaxLines lines of ParserLines.                *)
(***************************************************************************)
MaxLines == 4

LineId1 == <<"i","d",":","1">>
LineId2 == <<"i","d",":","2">>
LineIdEmpty == <<"i","d",":">>
LineData == <<"d","a","t","a",":","a">>
ParserLines == {EmptyText, LineId1, LineId2, LineIdEmpty, LineData}

\* A connection was accepted and its generator is about to yield `lines`.
InitParser ==
    /\ lines \in UNION {[1..n -> ParserLines] : n \in 0..MaxLines}
    /\ lineNo = 0
    /\ readyState = CONNETING
    /\ lastEventID = EmptyText
    /\ reconnectionTime = DefaultReconnectionTime
    /\ aborted = FALSE
    /\ pc = "reading"
    /\ queue = <<>>
    /\ body = <<>>
    /\ lastBuffer = <<>>
    /\ eventID = Undefined
    /\ eventType = EmptyText
    /\ data = EmptyText
    /\ requests = <<Request(EmptyText)>>
    /\ delivered = <<>>
    /\ parsed = 0
    /\ closeLog = <<>>
    /\ responseLog = <<>>
    /\ endLog = <<>>
    /\ server = [responses |-> {}, limit |-> 0]
    /\ on = [k \in Kinds |-> Unset]
    /\ listeners = [k \in Kinds |-> NoListeners]
    /\ removed = <<>>
    /\ dispatched = <<>>

\* one iteration of the for-await loop (src/mod.ts:148-210)
InterpretStep ==
    /\ pc = "reading"
    /\ lineNo < Len(lines)
    /\ LET st == InterpretLine(
                     [eventID |-> eventID, eventType |-> eventType,
                      data |-> data, lastEventID |-> lastEventID,
                      reconnectionTime |-> reconnectionTime,
                      events |-> <<>>],
                     lines[lineNo + 1], Origin)
       IN  /\ eventID' = st.eventID
           /\ eventType' = st.eventType
           /\ data' = st.data
           /\ lastEventID' = st.lastEventID
           /\ reconnectionTime' = st.reconnectionTime
           /\ parsed' = parsed + Len(st.events)
           /\ queue' = EnqueueAll(queue, [i \in 1..Len(st.events) |->
                           DispatchTask(st.events[i], parsed + i, Len(closeLog))])
    /\ lineNo' = lineNo + 1
    /\ UNCHANGED <<readyState, aborted, pc, body, lastBuffer, requests, delivered,
                   closeLog, responseLog, endLog, server, lines, registryVars>>

ParserNext == InterpretStep

ParserSpec == InitParser /\ [][ParserNext]_vars

(***************************************************************************)
(* The listener registry alone: addEventListener, removeEventListener,     *)
(* assignments to onopen / onmessage / onerror, and dispatchEvent          *)
(* (src/mod.ts:265-319, src/event.ts:62-83), with handlers that return     *)
(* without touching the registry.                                          *)
(***************************************************************************)
\* addEventListener calls in one run
MaxListeners == 3

\* event.type: the first argument of super() (src/event.ts:8, 18, 35)
EventType(event) ==
    CASE event.kind = "open" -> TypeOpen
      [] event.kind = "error" -> TypeError
      [] OTHER -> event.type

\* the switch of addEventListener and removeEventListener
\* (src/mod.ts:281-288, 311-318): the EventTarget a type goes to
TargetOf(type) ==
    CASE type = TypeOpen -> "open"
      [] type = TypeError -> "error"
      [] OTHER -> "message"

\* the `instanceof` tests of dispatchEvent (src/mod.ts:292-304): the
\* EventTarget and the on* field an event goes to
TargetOfEventByType(event) == TargetOf(EventType(event))
TargetOfEvent(event) == event.kind

\* EventTarget.addEventListener (src/event.ts:64-67)
TargetAddEventListener(ls, type, listener) ==
    [ls EXCEPT ![type] = Append(@, listener)]

\* EventTarget.removeEventListener (src/event.ts:79-82)
RemoveFirst(list, listener) ==
    IF \E i \in 1..Len(list) : list[i] = listener
    THEN LET i == CHOOSE i \in 1..Len(list) :
                      list[i] = listener /\ \A j \in 1..(i - 1) : list[j] # listener
         IN  SubSeq(list, 1, i - 1) \o SubSeq(list, i + 1, Len(list))
    ELSE list
Filter(list, listener) ==
    LET differs(item) == item # listener
    IN  SelectSeq(list, differs)

TargetRemoveFirstListener(ls, type, listener) ==
    [ls EXCEPT ![type] = RemoveFirst(@, listener)]
TargetRemoveEventListener(ls, type, listener) ==
    [ls EXCEPT ![type] = Filter(@, listener)]

\* one invocation of a listener: through an on* field or through a list
Call(listener, event, through) ==
    [listener |-> listener, event |-> event, through |-> through]

\* EventTarget.dispatchEvent (src/event.ts:68-78)
TargetDispatchEvent(ls, event) ==
    LET list == ls[EventType(event)]
    IN  [calls |-> [i \in 1..Len(list) |-> Call(list[i], event, "listeners")],
         returned |-> FALSE]

\* EventSource.dispatchEvent (src/mod.ts:291-305)
DispatchEventListenersFirst(slots, targets, event) ==
    LET k == TargetOfEvent(event)
        t == TargetDispatchEvent(targets[k], event)
    IN  [event |-> event,
         calls |-> t.calls \o (IF slots[k] # Unset
                               THEN <<Call(slots[k], event, "on")>>
                               ELSE <<>>),
         returned |-> t.returned]
DispatchEvent(slots, targets, event) ==
    LET k == TargetOfEvent(event)
        t == TargetDispatchEvent(targets[k], event)
    IN  [event |-> event,
         calls |-> (IF slots[k] # Unset
                    THEN <<Call(slots[k], event, "on")>>
                    ELSE <<>>) \o t.calls,
         returned |-> t.returned]

\* the events of the model: an OpenEvent, an ErrorEvent, and MessageEvents
\* without event field, with a custom one, with `event:open` and with
\* `event:error`
RegistryEvents ==
    {OpenEvent, ErrorEvent(ErrClosed)}
    \cup {MessageEvent(t, <<"a">>, Origin, EmptyText) :
              t \in {EmptyText, TypeUpdate, TypeOpen, TypeError}}

Registrations ==
    LET n(k) == Len(listeners[k][TypeOpen]) + Len(listeners[k][TypeError])
                + Len(listeners[k][TypeMessage]) + Len(listeners[k][TypeUpdate])
    IN  n("open") + n("error") + n("message")

InitRegistry ==
    /\ Constructed
    /\ server = [responses |-> {}, limit |-> 0]

\* EventSource.addEventListener (src/mod.ts:274-289)
AddEventListener ==
    /\ Registrations < MaxListeners
    /\ \E type \in EventTypes, listener \in Handlers :
          listeners' = [listeners EXCEPT ![TargetOf(type)] =
                           TargetAddEventListener(@, type, listener)]
    /\ removed' = <<>>
    /\ dispatched' = <<>>
    /\ UNCHANGED <<machineVars, lineVars, on>>

\* EventSource.removeEventListener (src/mod.ts:307-319)
RemoveEventListener ==
    /\ \E type \in EventTypes, listener \in Handlers :
          /\ listeners' = [listeners EXCEPT ![TargetOf(type)] =
                              TargetRemoveEventListener(@, type, listener)]
          /\ removed' = <<[type |-> type, listener |-> listener,
                           found |-> listeners[TargetOf(type)][type]]>>
    /\ dispatched' = <<>>
    /\ UNCHANGED <<machineVars, lineVars, on>>

\* an assignment to onopen, onerror or onmessage (src/mod.ts:266-272)
SetOn ==
    /\ \E k \in Kinds, listener \in SlotHandlers \cup {Unset} :
          /\ on[k] # listener
          /\ on' = [on EXCEPT ![k] = listener]
    /\ removed' = <<>>
    /\ dispatched' = <<>>
    /\ UNCHANGED <<machineVars, lineVars, listeners>>

\* a dispatchEvent call (src/mod.ts:291-305)
CallDispatchEvent ==
    /\ \E event \in RegistryEvents :
          dispatched' = <<DispatchEvent(on, listeners, event)>>
    /\ UNCHANGED <<machineVars, lineVars, on, listeners, removed>>

RegistryNext ==
    \/ AddEventListener
    \/ RemoveEventListener
    \/ SetOn
    \/ CallDispatchEvent

RegistrySpec == InitRegistry /\ [][RegistryNext]_vars

(***************************************************************************)
(* What the subscribers saw.                                               *)
(***************************************************************************)
IsMessage(i) == delivered[i].event.kind = "message"
IsError(i) == delivered[i].event.kind = "error"
IsOpen(i) == delivered[i].event.kind = "open"

Messages == {i \in 1..Len(delivered) : IsMessage(i)}
\* the Error notifications delivered after the first n dispatchEvent calls
ErrorsSince(n) == {i \in (n + 1)..Len(delivered) : IsError(i)}

AbortPending == \E i \in 1..Len(queue) : queue[i].kind = "abort"
DispatchPending == \E i \in 1..Len(queue) : queue[i].kind = "dispatch"

(***************************************************************************)
(* C1.  Closed is absorbing: once readyState is CLOSED, no step (response, *)
(* end of stream, timer, close() call) makes it CONNETING or OPEN again.   *)
(***************************************************************************)
C1_ClosedAbsorbing == [][readyState = CLOSED => readyState' = CLOSED]_vars

\* The announcement of a connection ran after the close and left CLOSED alone.
C1_Witness ==
    /\ readyState = CLOSED
    /\ \E i \in 1..Len(delivered) : IsOpen(i) /\ delivered[i].readyState = CLOSED

(***************************************************************************)
(* C2.  Post-close suppression: a MessageEvent queued for dispatch before  *)
(* a close() call is not delivered once that call has returned, so every   *)
(* delivered MessageEvent was delivered with as many close() calls made as *)
(* when it was queued.                                                     *)
(***************************************************************************)
C2_PostCloseSuppression ==
    \A i \in Messages : delivered[i].closes = delivered[i].queuedCloses

(***************************************************************************)
(* C3.  Terminal 204: once a response with status 204 has been received,   *)
(* no further request is issued, at most one Error notification is         *)
(* delivered, and once the tasks of #abort have run readyState is CLOSED   *)
(* with exactly one Error notification delivered since the response; under *)
(* a fair event loop readyState does become CLOSED.                        *)
(***************************************************************************)
Saw204 == \E i \in 1..Len(responseLog) : responseLog[i].status = 204

C3_Settled ==
    \A i \in 1..Len(responseLog) :
       responseLog[i].status = 204 =>
          /\ Len(requests) = responseLog[i].requests
          /\ Cardinality(ErrorsSince(responseLog[i].delivered)) <= 1
          /\ ~AbortPending =>
                /\ readyState = CLOSED
                /\ Cardinality(ErrorsSince(responseLog[i].delivered)) = 1

C3_Terminal204 == []C3_Settled /\ (Saw204 ~> (readyState = CLOSED))

C3_Witness ==
    /\ Saw204
    /\ ~AbortPending
    /\ readyState = CLOSED
    /\ \E i \in 1..Len(delivered) : IsError(i)

(***************************************************************************)
(* C4.  The claim as stated: a response with a status other than 200 and   *)
(* 204, or with another Content-Type than text/event-stream, is not fatal: *)
(* unless close() is called, readyState does not become CLOSED.            *)
(***************************************************************************)
Invalid(r) ==
    /\ r.status # 204
    /\ r.status # 200 \/ r.contentType # EventStream

SawInvalid == \E i \in 1..Len(responseLog) : Invalid(responseLog[i])

C4_InvalidResponseNonFatal ==
    (SawInvalid /\ closeLog = <<>>) => readyState # CLOSED

(***************************************************************************)
(* C4, amended.  Such a response is fatal: no further request is issued,   *)
(* at most one Error notification is delivered, and once the task of       *)
(* #abort has run readyState is CLOSED with exactly one Error notification *)
(* delivered since the response; under a fair event loop readyState does   *)
(* become CLOSED.                                                          *)
(***************************************************************************)
C4_Settled ==
    \A i \in 1..Len(responseLog) :
       Invalid(responseLog[i]) =>
          /\ Len(requests) = responseLog[i].requests
          /\ Cardinality(ErrorsSince(responseLog[i].delivered)) <= 1
          /\ ~AbortPending =>
                /\ readyState = CLOSED
                /\ Cardinality(ErrorsSince(responseLog[i].delivered)) = 1

C4_InvalidResponseFatal == []C4_Settled /\ (SawInvalid ~> (readyState = CLOSED))

C4_Witness ==
    /\ SawInvalid
    /\ closeLog = <<>>
    /\ queue = <<>>
    /\ readyState = CLOSED
    /\ \E i \in 1..Len(delivered) :
          IsError(i) /\ delivered[i].event.err \in {ErrStatus, ErrContentType}

(***************************************************************************)
(* C5.  Reconnect liveness: after the end of an accepted response's body,  *)
(* with close() never called, a new request is issued.  As a final result: *)
(* when the #connect chain has ended with no timer left and close() was    *)
(* never called, every end of a body was followed by a request.            *)
(***************************************************************************)
C5_ReconnectLiveness ==
    (closeLog = <<>> /\ queue = <<>> /\ pc = "done") =>
        \A i \in 1..Len(endLog) : Len(requests) > endLog[i].requests

(***************************************************************************)
(* C6.  close() is idempotent: once every task of #abort has run after     *)
(* n >= 1 close() calls, readyState is CLOSED and the calls have caused    *)
(* exactly one "Connection Closed" Error notification if the first call    *)
(* found readyState not CLOSED, and none if it found it CLOSED.            *)
(***************************************************************************)
ClosedErrorsSince(n) ==
    {i \in ErrorsSince(n) : delivered[i].event.err = ErrClosed}

C6_CloseIdempotent ==
    (closeLog # <<>> /\ ~AbortPending) =>
        /\ readyState = CLOSED
        /\ Cardinality(ClosedErrorsSince(closeLog[1].delivered))
              = IF closeLog[1].readyState # CLOSED THEN 1 ELSE 0

(***************************************************************************)
(* C7.  No request after Closed: no step taken with readyState CLOSED      *)
(* issues a request, and the steps of a pending #reconnect (the end of its *)
(* sleep, its task) taken with readyState CLOSED deliver nothing.          *)
(***************************************************************************)
C7_NoRequestAfterClosed ==
    [][readyState = CLOSED =>
          /\ requests' = requests
          /\ (pc \in {"sleeping", "waitTask"} /\ pc' # pc) =>
                delivered' = delivered]_vars

\* readyState became CLOSED during the backoff and the task of #reconnect
\* returned without a request.
C7_Witness ==
    /\ readyState = CLOSED
    /\ pc = "done"
    /\ endLog # <<>>
    /\ endLog[Len(endLog)].readyState # CLOSED
    /\ endLog[Len(endLog)].requests = Len(requests)

(***************************************************************************)
(* C8.  Message ordering: the MessageEvents delivered are delivered in the *)
(* order in which they were constructed (the order of their terminating    *)
(* blank lines), each at most once.                                        *)
(***************************************************************************)
C8_MessageOrdering ==
    \A i, j \in Messages : i < j => delivered[i].serial < delivered[j].serial

C8_Witness ==
    \E i, j \in Messages : i < j /\ delivered[j].serial = delivered[i].serial + 1

(***************************************************************************)
(* C9.  End-to-end scenario: over one connection whose body is             *)
(* "data:msg\ndata:msg\n\ndata:\n\ndata:end\n\n", under any chunking, the  *)
(* MessageEvents delivered are, in order, those with data "msg\nmsg", ""   *)
(* and "end" (a prefix of them at any moment), and all three once the body *)
(* has been read and the dispatch tasks have run with no close() call.     *)
(***************************************************************************)
ScenarioData ==
    << <<"m","s","g","\n","m","s","g">>, <<>>, <<"e","n","d">> >>

IsMessageEntry(e) == e.event.kind = "message"
DeliveredMessages == SelectSeq(delivered, IsMessageEntry)

ScenarioComplete ==
    /\ responseLog # <<>>
    /\ body = <<>>
    /\ closeLog = <<>>
    /\ ~DispatchPending

C9_Scenario ==
    /\ Len(DeliveredMessages) <= Len(ScenarioData)
    /\ \A k \in 1..Len(DeliveredMessages) :
          /\ DeliveredMessages[k].event.data = ScenarioData[k]
          /\ DeliveredMessages[k].event.type = TypeMessage
    /\ ScenarioComplete => Len(DeliveredMessages) = Len(ScenarioData)

C9_Witness ==
    /\ ScenarioComplete
    /\ Len(DeliveredMessages) = 3
    /\ DeliveredMessages[1].event.data = <<"m","s","g","\n","m","s","g">>

(***************************************************************************)
(* C10.  Request headers: every request carries Accept: text/event-stream, *)
(* and a Last-Event-ID header exactly when #lastEventID is not empty as    *)
(* the request is issued, with that value; while the fetch is pending the  *)
(* request's value is still the value of #lastEventID.                     *)
(***************************************************************************)
C10_RequestHeaders ==
    /\ \A k \in 1..Len(requests) :
          LET r == requests[k]
          IN  /\ r.headers["Accept"] = EventStream
              /\ ("Last-Event-ID" \in DOMAIN r.headers) <=> (r.lastEventID # EmptyText)
              /\ ("Last-Event-ID" \in DOMAIN r.headers) =>
                    r.headers["Last-Event-ID"] = r.lastEventID
    /\ pc = "fetching" => requests[Len(requests)].lastEventID = lastEventID

\* a reconnect carries the id of the previous connection's event
C10_Witness ==
    /\ Len(requests) >= 2
    /\ "Last-Event-ID" \in DOMAIN requests[2].headers
    /\ requests[2].headers["Last-Event-ID"] = <<"1">>

(***************************************************************************)
(* What #interpretLines has been given so far.                             *)
(***************************************************************************)
\* the line the next iteration interprets
NextLine == lines[lineNo + 1]
\* the line is an id field: "id" alone or "id:" and a value
IsIdLine(l) ==
    \/ l = FieldId
    \/ Len(l) > Len(FieldId) /\ SubSeq(l, 1, Len(FieldId) + 1) = FieldId \o <<":">>
\* lines 1..n hold an id field
SeenId(n) == \E j \in 1..n : IsIdLine(lines[j])
\* the value of the latest id field among lines 1..n
LatestIdValue(n) ==
    LET j == CHOOSE j \in 1..n :
                 IsIdLine(lines[j]) /\ \A k \in (j + 1)..n : ~IsIdLine(lines[k])
    IN  SubSeq(lines[j], Len(FieldId) + 2, Len(lines[j]))
\* the first line of the event that line n + 1 belongs to
EventStart(n) ==
    IF \E j \in 1..n : lines[j] = EmptyText
    THEN 1 + CHOOSE j \in 1..n :
                 lines[j] = EmptyText /\ \A k \in (j + 1)..n : lines[k] # EmptyText
    ELSE 1
\* the event being built carried an id field
CurrentEventHasId == \E j \in EventStart(lineNo)..lineNo : IsIdLine(lines[j])

(***************************************************************************)
(* C11.  The claim as stated: #lastEventID never goes back to empty, and   *)
(* it changes only at an empty line that ends an event with data, and only *)
(* when that same event carried an id field: the pending id does not       *)
(* outlive the boundary of its event, so an id of an event dropped for     *)
(* empty data is not adopted by a later event without an id field.         *)
(***************************************************************************)
C11_PendingIdPerEvent ==
    [][/\ lastEventID # EmptyText => lastEventID' # EmptyText
       /\ lastEventID' # lastEventID =>
             /\ NextLine = EmptyText
             /\ data # EmptyText
             /\ CurrentEventHasId]_vars

(***************************************************************************)
(* C11, amended.  #lastEventID never goes back to empty, and it changes    *)
(* only at an empty line that ends an event with data, where it takes the  *)
(* value of the latest id field the connection has carried so far, in this *)
(* event or an earlier one (dispatched or dropped), when that value is not *)
(* empty: the pending id is not reset at any boundary.                     *)
(***************************************************************************)
C11_StickyLatestId ==
    [][/\ lastEventID # EmptyText => lastEventID' # EmptyText
       /\ lastEventID' =
             IF /\ NextLine = EmptyText
                /\ data # EmptyText
                /\ SeenId(lineNo)
                /\ LatestIdValue(lineNo) # EmptyText
             THEN LatestIdValue(lineNo)
             ELSE lastEventID]_vars

\* the id of an event dropped for empty data was adopted by the next event
C11_Witness ==
    /\ lines = <<LineId1, EmptyText, LineData, EmptyText>>
    /\ lineNo = 4
    /\ lastEventID = <<"1">>
    /\ queue # <<>>
    /\ queue[1].event.lastEventID = <<"1">>

(***************************************************************************)
(* C12.  Dispatch freshness: no MessageEvent and no ErrorEvent is handed   *)
(* to dispatchEvent while readyState is CLOSED.                            *)
(***************************************************************************)
C12_DispatchFreshness ==
    \A i \in 1..Len(delivered) :
       (IsMessage(i) \/ IsError(i)) => delivered[i].readyState # CLOSED

\* a queued dispatch ran with readyState CLOSED and dropped its MessageEvent
C12_Witness ==
    /\ readyState = CLOSED
    /\ ~DispatchPending
    /\ parsed > Cardinality(Messages)
    /\ \E i \in 1..Len(delivered) : IsError(i)

(***************************************************************************)
(* C13.  Open after close is a no-op: whenever an OpenEvent is handed to   *)
(* dispatchEvent, readyState is OPEN (so never CLOSED).                    *)
(***************************************************************************)
C13_OpenOnlyWhenOpen ==
    \A i \in 1..Len(delivered) : IsOpen(i) => delivered[i].readyState = OPEN

(***************************************************************************)
(* C14.  Missing body is fatal: after a 200 text/event-stream response     *)
(* without a body, once every timer has fired readyState is CLOSED, and no *)
(* request follows the response.                                           *)
(***************************************************************************)
MissingBody(r) == r.status = 200 /\ r.contentType = EventStream /\ ~r.hasBody
SawMissingBody == \E i \in 1..Len(responseLog) : MissingBody(responseLog[i])

C14_MissingBodyFatal ==
    /\ \A i \in 1..Len(responseLog) :
          MissingBody(responseLog[i]) => Len(requests) = responseLog[i].requests
    /\ (SawMissingBody /\ queue = <<>>) => readyState = CLOSED

(***************************************************************************)
(* C15.  Transport failures surface as Error notifications: with close()   *)
(* never called, a failed fetch or a failed read of the body does not      *)
(* leave #connect rejected; an ErrorEvent is dispatched for it and         *)
(* #reconnect is entered.                                                  *)
(***************************************************************************)
C15_TransportFailureSurfaces ==
    (closeLog = <<>> /\ ~SawMissingBody) => pc # "rejected"

(***************************************************************************)
(* C16.  Single in-flight resource: every request but the latest has had   *)
(* the body of its response ended or cancelled, and while a request is     *)
(* pending, or #reconnect is sleeping or waiting for its task, no body is  *)
(* left to read; a request is issued only by the task of #reconnect.       *)
(***************************************************************************)
C16_SingleInFlight ==
    /\ Len(requests) <= Len(endLog) + 1
    /\ Len(responseLog) <= Len(requests)
    /\ pc \in {"fetching", "sleeping", "waitTask"} => body = <<>>
    /\ pc = "reading" => Len(requests) = Len(endLog) + 1

\* a second request was issued, after the end of the first body, and its
\* body is being read
C16_Witness ==
    /\ Len(requests) = 2
    /\ Len(endLog) = 1
    /\ pc = "reading"
    /\ body # <<>>

(***************************************************************************)
(* C17.  Cross-type delivery order: a MessageEvent is delivered only after *)
(* an OpenEvent, and the ErrorEvent that #reconnect dispatches at the end  *)
(* of a body comes after every MessageEvent of that body: until the next   *)
(* request is issued, no MessageEvent is delivered after it.               *)
(***************************************************************************)
C17_CrossTypeOrder ==
    /\ \A i \in Messages : \E j \in 1..(i - 1) : IsOpen(j)
    /\ \A k \in 1..Len(endLog) :
          (endLog[k].readyState # CLOSED /\ Len(requests) = endLog[k].requests) =>
              \A i \in Messages : i <= endLog[k].delivered

(***************************************************************************)
(* What the latest removeEventListener and dispatchEvent calls did.        *)
(***************************************************************************)
\* how many times a listener stands in a list
Count(list, listener) ==
    Cardinality({i \in 1..Len(list) : list[i] = listener})
\* the other listeners of a list, in their order
RECURSIVE Others(_, _)
Others(list, listener) ==
    IF list = <<>> THEN <<>>
    ELSE IF Head(list) = listener THEN Others(Tail(list), listener)
    ELSE <<Head(list)>> \o Others(Tail(list), listener)
\* the listeners a dispatchEvent call invoked through a list, in order
RECURSIVE ListCalls(_)
ListCalls(cs) ==
    IF cs = <<>> THEN <<>>
    ELSE IF Head(cs).through = "listeners"
    THEN <<Head(cs).listener>> \o ListCalls(Tail(cs))
    ELSE ListCalls(Tail(cs))
\* the latest dispatchEvent call went through the list that the latest
\* removeEventListener call worked on
DispatchedAfterRemoval ==
    /\ removed # <<>>
    /\ dispatched # <<>>
    /\ TargetOfEvent(dispatched[1].event) = TargetOf(removed[1].type)
    /\ EventType(dispatched[1].event) = removed[1].type

(***************************************************************************)
(* C18.  The claim as stated: removeEventListener(type, handler) removes   *)
(* the first matching registration only: a handler registered k >= 2 times *)
(* is invoked k - 1 times by a later dispatchEvent of an event of that     *)
(* type, and the other handlers are invoked in their order.                *)
(***************************************************************************)
C18_RemovesFirstMatch ==
    (DispatchedAfterRemoval
     /\ Count(removed[1].found, removed[1].listener) >= 2) =>
        /\ Count(ListCalls(dispatched[1].calls), removed[1].listener)
              = Count(removed[1].found, removed[1].listener) - 1
        /\ Others(ListCalls(dispatched[1].calls), removed[1].listener)
              = Others(removed[1].found, removed[1].listener)

(***************************************************************************)
(* C18, amended.  removeEventListener(type, handler) removes every         *)
(* matching registration: a handler registered k >= 1 times is invoked     *)
(* through the list no more by a later dispatchEvent of an event of that   *)
(* type, and the other handlers are invoked, each as often as it was       *)
(* registered, in their order.                                             *)
(***************************************************************************)
C18_RemovesEveryMatch ==
    DispatchedAfterRemoval =>
        /\ Count(ListCalls(dispatched[1].calls), removed[1].listener) = 0
        /\ ListCalls(dispatched[1].calls)
              = Others(removed[1].found, removed[1].listener)

\* f, g, f were registered, f was removed, and g alone was invoked
C18_Witness ==
    /\ DispatchedAfterRemoval
    /\ removed[1].found = <<"f", "g", "f">>
    /\ removed[1].listener = "f"
    /\ ListCalls(dispatched[1].calls) = <<"g">>

(***************************************************************************)
(* C19.  The claim as stated: dispatchEvent(event) invokes the on* field   *)
(* of the event's class first if it is set, then every handler that was    *)
(* registered with addEventListener for the event's type, in registration  *)
(* order, each once per registration and with that event, and returns      *)
(* false.                                                                  *)
(***************************************************************************)
SlotCount(event) == IF on[TargetOfEvent(event)] # Unset THEN 1 ELSE 0

\* dispatchEvent invoked the on* field, then the listeners of `registered`
InvokedInOrder(d, registered) ==
    /\ d.returned = FALSE
    /\ Len(d.calls) = SlotCount(d.event) + Len(registered)
    /\ SlotCount(d.event) = 1 =>
          d.calls[1] = Call(on[TargetOfEvent(d.event)], d.event, "on")
    /\ \A i \in 1..Len(registered) :
          d.calls[SlotCount(d.event) + i] = Call(registered[i], d.event, "listeners")

\* what addEventListener(type, ...) calls have registered
RegisteredFor(type) == listeners[TargetOf(type)][type]

C19_DispatchOrderByType ==
    dispatched # <<>> =>
        InvokedInOrder(dispatched[1], RegisteredFor(EventType(dispatched[1].event)))

(***************************************************************************)
(* C19, amended.  ... then every handler registered for the event's type   *)
(* with the EventTarget of the event's class (#openEventTarget for an      *)
(* OpenEvent, #errorEventTarget for an ErrorEvent, #messageEventTarget for *)
(* a MessageEvent), in registration order, each once per registration and  *)
(* with that event, and returns false.  The handlers added for "open" or   *)
(* "error" are not invoked for a MessageEvent of that type.                *)
(***************************************************************************)
C19_DispatchOrderByClass ==
    dispatched # <<>> =>
        InvokedInOrder(dispatched[1],
            listeners[TargetOfEvent(dispatched[1].event)]
                     [EventType(dispatched[1].event)])

\* onmessage, then g, then f, for a MessageEvent
C19_Witness ==
    /\ dispatched # <<>>
    /\ dispatched[1].event.kind = "message"
    /\ Len(dispatched[1].calls) = 3
    /\ dispatched[1].calls[1].through = "on"
    /\ dispatched[1].calls[2] = Call("g", dispatched[1].event, "listeners")
    /\ dispatched[1].calls[3] = Call("f", dispatched[1].event, "listeners")

(***************************************************************************)
(* C20.  Reconnection delay: a retry field whose value is not made of      *)
(* ASCII digits (the empty value included) leaves #reconnectionTime        *)
(* unchanged and one with the digits of N sets it to N; and the delay that *)
(* #reconnect sleeps is #reconnectionTime, at every attempt.               *)
(***************************************************************************)
\* the line is "retry:" and the digits of a number
IsRetryNumber(l) ==
    /\ Len(l) > Len(FieldRetry) + 1
    /\ SubSeq(l, 1, Len(FieldRetry) + 1) = FieldRetry \o <<":">>
    /\ \A i \in (Len(FieldRetry) + 2)..Len(l) : PosIn(Digits, l[i]) > 0

\* the reconnection time after these lines, t before them
RECURSIVE RetryAfter(_, _)
RetryAfter(ls, t) ==
    IF ls = <<>> THEN t
    ELSE RetryAfter(Tail(ls),
             IF IsRetryNumber(Head(ls))
             THEN ParseInt(SubSeq(Head(ls), Len(FieldRetry) + 2, Len(Head(ls))))
             ELSE t)

\* the body every response of this server carries, and its lines
ServedBody == (CHOOSE r \in server.responses : TRUE).body
LinesOf(bytes) == ReadChunkLines(<<>>, bytes).lines
\* the lines of the current body read so far
LinesRead == LinesOf(SubSeq(ServedBody, 1, Len(ServedBody) - Len(body)))

\* the reconnection time as the n-th response arrives
RECURSIVE TimeAtResponse(_)
TimeAtResponse(n) ==
    IF n <= 1 THEN DefaultReconnectionTime
    ELSE RetryAfter(LinesOf(ServedBody), TimeAtResponse(n - 1))

C20_ReconnectionDelay ==
    /\ pc = "reading" =>
          reconnectionTime = RetryAfter(LinesRead, TimeAtResponse(Len(responseLog)))
    /\ \A i \in 1..Len(queue) :
          queue[i].kind = "sleep" => queue[i].delay = Double(reconnectionTime, 0)

(***************************************************************************)
(* readerToLines alone (src/mod.ts:418-451): a body of at most MaxBytes    *)
(* bytes of StreamBytes is delivered in chunks of any sizes, and `lines`   *)
(* collects what the generator yields.                                     *)
(***************************************************************************)
MaxBytes == 4

\* the letter a, and the three bytes the for loop looks for
StreamBytes == {97, lf, cr, nil}

\* reader.read() is about to deliver `body`; nothing is yielded yet
InitTokenizer ==
    /\ body \in UNION {[1..n -> StreamBytes] : n \in 0..MaxBytes}
    /\ server = [responses |-> {Accepted(body)}, limit |-> 0]
    /\ lastBuffer = <<>>
    /\ lines = <<>>
    /\ lineNo = 0
    /\ readyState = CONNETING
    /\ lastEventID = EmptyText
    /\ reconnectionTime = DefaultReconnectionTime
    /\ aborted = FALSE
    /\ pc = "reading"
    /\ queue = <<>>
    /\ eventID = Undefined
    /\ eventType = EmptyText
    /\ data = EmptyText
    /\ requests = <<Request(EmptyText)>>
    /\ delivered = <<>>
    /\ parsed = 0
    /\ closeLog = <<>>
    /\ responseLog = <<>>
    /\ endLog = <<>>
    /\ on = [k \in Kinds |-> Unset]
    /\ listeners = [k \in Kinds |-> NoListeners]
    /\ removed = <<>>
    /\ dispatched = <<>>

\* one iteration of the while loop (src/mod.ts:423-450): a chunk of n bytes
TokenizerRead ==
    /\ pc = "reading"
    /\ body # <<>>
    /\ \E n \in 1..Len(body) :
          LET r == ReadChunkLines(lastBuffer, SubSeq(body, 1, n))
          IN  /\ body' = SubSeq(body, n + 1, Len(body))
              /\ lastBuffer' = r.lastBuffer
              /\ lines' = lines \o r.lines
    /\ UNCHANGED <<readyState, sessionVars, aborted, pc, queue, eventID, eventType,
                   data, requests, delivered, parsed, closeLog, responseLog, endLog,
                   server, lineNo, registryVars>>

\* reader.read() resolves with done (src/mod.ts:425-426): the generator
\* returns and what lastBuffer holds is dropped
TokenizerDone ==
    /\ pc = "reading"
    /\ body = <<>>
    /\ pc' = "done"
    /\ lastBuffer' = <<>>
    /\ UNCHANGED <<readyState, sessionVars, aborted, queue, body, eventID, eventType,
                   data, requests, delivered, parsed, closeLog, responseLog, endLog,
                   server, lineVars, registryVars>>

TokenizerNext == TokenizerRead \/ TokenizerDone

TokenizerSpec == InitTokenizer /\ [][TokenizerNext]_vars

(***************************************************************************)
(* C21.  Chunk-boundary invariance of the tokenizer: whatever the chunks,  *)
(* the lines yielded are the reference split of the bytes read so far at   *)
(* each LF or CR (CR LF not coalesced, the unterminated tail left out),    *)
(* so no line is yielded twice.                                            *)
(***************************************************************************)
\* the bytes split at each LF or CR; `from` is where the current line began
RECURSIVE ReferenceSplit(_, _, _)
ReferenceSplit(bytes, from, i) ==
    IF i > Len(bytes) THEN <<>>
    ELSE IF bytes[i] \in {lf, cr}
    THEN <<Decode(SubSeq(bytes, from, i - 1))>> \o ReferenceSplit(bytes, i + 1, i + 1)
    ELSE ReferenceSplit(bytes, from, i + 1)

\* the bytes of the body the reader has delivered
BytesRead == SubSeq(ServedBody, 1, Len(ServedBody) - Len(body))

C21_ChunkInvariance == lines = ReferenceSplit(BytesRead, 1, 1)

\* the same, of the bodies that hold no NUL byte
C21_NulFreeChunkInvariance ==
    (\A i \in 1..Len(ServedBody) : ServedBody[i] # nil) => C21_ChunkInvariance

(***************************************************************************)
(* The client against a server whose body holds an id with a NUL           *)
(* character: "data:a\n\ndata:b\nid:abc\0def\n\n".                         *)
(***************************************************************************)
NulText ==
    <<"d","a","t","a",":","a","\n","\n",
      "d","a","t","a",":","b","\n",
      "i","d",":","a","b","c",NulChar,"d","e","f","\n","\n">>
NulBody == Encode(NulText)

InitNul ==
    /\ Constructed
    /\ server = [responses |-> {Accepted(NulBody)}, limit |-> MaxResponses]

NulSpec == InitNul /\ [][Next]_vars

(***************************************************************************)
(* C22.  NUL-guarded id: once the body with the line id:abc\0def between   *)
(* a data line and a blank line is read, the line has not changed          *)
(* #lastEventID, and the rest of its event was parsed and its Message      *)
(* queued for dispatch, as the one of the event before it: two Messages    *)
(* for each body read.                                                     *)
(***************************************************************************)
\* the reader has delivered every byte of the current body
BodyRead == pc = "reading" /\ body = <<>>

C22_NulGuardedId ==
    BodyRead /\ ServedBody = NulBody =>
        /\ lastEventID = EmptyText
        /\ parsed = 2 * Len(responseLog)

(***************************************************************************)
(* #interpretLines alone (src/mod.ts:140-211), fed one line of FieldLines  *)
(* after another, at most MaxFieldLines of them; `lines` records the lines *)
(* given so far.                                                           *)
(***************************************************************************)
MaxFieldLines == 4

LineDataSpace == <<"d","a","t","a",":"," ","b">>
LineDataEmpty == <<"d","a","t","a",":">>
LineDataBare == FieldData
LineComment == <<":","c">>
LineFalseField == <<"f","a","l","s","e","f","i","e","l","d",":","m","s","g">>
LineDataUpper == <<"D","a","t","a",":","d","a","t","a">>
LineEventUpdate == <<"e","v","e","n","t",":","u","p","d","a","t","e">>
LineEventEmpty == <<"e","v","e","n","t",":">>
LineRetry5 == <<"r","e","t","r","y",":","5">>
FieldLines ==
    {EmptyText, LineData, LineDataSpace, LineDataEmpty, LineDataBare,
     LineComment, LineFalseField, LineDataUpper,
     LineEventUpdate, LineEventEmpty, LineId1, LineRetry5}

\* A connection was accepted and its generator has yielded nothing yet.
InitField == InitParser /\ lines = <<>>

\* the generator yields `line`: one iteration of the for-await loop
\* (src/mod.ts:148-210)
InterpretYield ==
    /\ pc = "reading"
    /\ Len(lines) < MaxFieldLines
    /\ \E line \in FieldLines :
          LET st == InterpretLine(
                        [eventID |-> eventID, eventType |-> eventType,
                         data |-> data, lastEventID |-> lastEventID,
                         reconnectionTime |-> reconnectionTime,
                         events |-> <<>>],
                        line, Origin)
          IN  /\ eventID' = st.eventID
              /\ eventType' = st.eventType
              /\ data' = st.data
              /\ lastEventID' = st.lastEventID
              /\ reconnectionTime' = st.reconnectionTime
              /\ parsed' = parsed + Len(st.events)
              /\ queue' = EnqueueAll(queue, [i \in 1..Len(st.events) |->
                              DispatchTask(st.events[i], parsed + i, Len(closeLog))])
              /\ lines' = Append(lines, line)
    /\ lineNo' = lineNo + 1
    /\ UNCHANGED <<readyState, aborted, pc, body, lastBuffer, requests, delivered,
                   closeLog, responseLog, endLog, server, registryVars>>

FieldNext == InterpretYield

FieldSpec == InitField /\ [][FieldNext]_vars

(***************************************************************************)
(* The events of the lines given so far, read off the wire format.         *)
(***************************************************************************)
\* the line is a data field: "data" alone or "data:" and a value
IsDataLine(l) ==
    \/ l = FieldData
    \/ Len(l) > Len(FieldData) /\ SubSeq(l, 1, Len(FieldData) + 1) = FieldData \o <<":">>
\* its value, at most one leading space left out
DataValue(l) ==
    LET v == SubSeq(l, Len(FieldData) + 2, Len(l))
    IN  IF v # <<>> /\ v[1] = " " THEN Tail(v) ELSE v
\* the values of the data lines among lines i..j, joined by single "\n"
RECURSIVE JoinedData(_, _)
JoinedData(i, j) ==
    IF i > j THEN <<>>
    ELSE IF ~IsDataLine(lines[i]) THEN JoinedData(i + 1, j)
    ELSE IF \E k \in (i + 1)..j : IsDataLine(lines[k])
    THEN DataValue(lines[i]) \o <<"\n">> \o JoinedData(i + 1, j)
    ELSE DataValue(lines[i])
\* line n is blank and ends an event that began after the blank line before it
IsBoundary(n) == n \in 1..Len(lines) /\ lines[n] = EmptyText
\* the boundary n ends an event with at least one data line
HasData(n) == \E k \in EventStart(n - 1)..(n - 1) : IsDataLine(lines[k])
\* the boundaries so far that end an event with data, in order
RECURSIVE DataBoundaries(_)
DataBoundaries(n) ==
    IF n = 0 THEN <<>>
    ELSE IF IsBoundary(n) /\ HasData(n)
    THEN Append(DataBoundaries(n - 1), n)
    ELSE DataBoundaries(n - 1)

(***************************************************************************)
(* C23.  Data joining: each blank line that ends an event with n >= 1 data *)
(* lines yields exactly one Message, whose data is the values of the data  *)
(* lines (one leading space stripped) joined by single "\n", the last      *)
(* newline removed; so "data:" or "data" alone yields a Message with data  *)
(* "", and a blank line with no data line since the previous boundary      *)
(* yields no Message.                                                      *)
(***************************************************************************)
C23_DataJoining ==
    LET ends == DataBoundaries(Len(lines))
    IN  /\ parsed = Len(ends)
        /\ Len(queue) = Len(ends)
        /\ \A k \in 1..Len(ends) :
              /\ queue[k].event.kind = "message"
              /\ queue[k].event.data = JoinedData(EventStart(ends[k] - 1), ends[k] - 1)

\* two data lines, one with a leading space: data "a\nb"
C23_Witness ==
    /\ lines = <<LineData, LineDataSpace, EmptyText, EmptyText>>
    /\ Len(queue) = 1
    /\ queue[1].event.data = <<"a","\n","b">>

(***************************************************************************)
(* C24.  Inert lines: a comment line (first colon at position 0) or a line *)
(* whose field name is not exactly event, data, id or retry leaves the     *)
(* event being built (type, data, pending id), #lastEventID and            *)
(* #reconnectionTime unchanged and queues no Message; and the blank line   *)
(* that ends an event made of such lines only queues no Message.           *)
(***************************************************************************)
\* the line before its first colon, the whole line when it has none
FieldName(l) ==
    IF \E i \in 1..Len(l) : l[i] = ":"
    THEN SubSeq(l, 1, (CHOOSE i \in 1..Len(l) :
                           l[i] = ":" /\ \A j \in 1..(i - 1) : l[j] # ":") - 1)
    ELSE l
IsInert(l) ==
    /\ l # EmptyText
    /\ \/ l[1] = ":"
       \/ FieldName(l) \notin {FieldEvent, FieldData, FieldId, FieldRetry}
\* the line this step interprets
YieldedLine == lines'[Len(lines')]
\* the lines of the event this step's line belongs to, that line left out
EventSoFar == {lines[k] : k \in EventStart(Len(lines))..Len(lines)}

C24_InertLines ==
    [][/\ IsInert(YieldedLine) =>
             UNCHANGED <<eventID, eventType, data, lastEventID, reconnectionTime,
                         parsed, queue>>
       /\ (/\ YieldedLine = EmptyText
           /\ EventSoFar # {}
           /\ \A l \in EventSoFar : IsInert(l)) => UNCHANGED <<parsed, queue>>]_vars

\* Data:data came while an event with type, data and a new delay was building
C24_Witness ==
    /\ lines = <<LineRetry5, LineEventUpdate, LineData, LineDataUpper>>
    /\ reconnectionTime = 5
    /\ eventType = <<"u","p","d","a","t","e">>
    /\ data = <<"a","\n">>
    /\ queue = <<>>

(***************************************************************************)
(* C25.  Event type default and reset: the type of a Message is the value  *)
(* of the last event field seen since the previous boundary, "message"     *)
(* when there was none or its value was empty; and after every blank line, *)
(* whether it queued a Message or ended an event without data, the event   *)
(* type is empty again.                                                    *)
(***************************************************************************)
\* the line is an event field: "event" alone or "event:" and a value
IsEventLine(l) ==
    \/ l = FieldEvent
    \/ Len(l) > Len(FieldEvent)
       /\ SubSeq(l, 1, Len(FieldEvent) + 1) = FieldEvent \o <<":">>
\* its value, at most one leading space left out
EventValue(l) ==
    LET v == SubSeq(l, Len(FieldEvent) + 2, Len(l))
    IN  IF v # <<>> /\ v[1] = " " THEN Tail(v) ELSE v
\* the type of the Message of the event made of lines i..j
TypeOfLines(i, j) ==
    IF \E k \in i..j : IsEventLine(lines[k])
    THEN LET k == CHOOSE k \in i..j :
                      IsEventLine(lines[k]) /\ \A m \in (k + 1)..j : ~IsEventLine(lines[m])
         IN  IF EventValue(lines[k]) = EmptyText
             THEN TypeMessage
             ELSE EventValue(lines[k])
    ELSE TypeMessage

C25_EventTypeDefaultAndReset ==
    LET ends == DataBoundaries(Len(lines))
    IN  /\ Len(queue) = Len(ends)
        /\ \A k \in 1..Len(ends) :
              queue[k].event.type = TypeOfLines(EventStart(ends[k] - 1), ends[k] - 1)
        /\ IsBoundary(Len(lines)) => eventType = EmptyText

\* the type of an event dropped for empty data did not reach the next Message
C25_Witness ==
    /\ lines = <<LineEventUpdate, EmptyText, LineData, EmptyText>>
    /\ Len(queue) = 1
    /\ queue[1].event.type = TypeMessage
    /\ eventType = EmptyText

(***************************************************************************)
(* The client against a server whose body ends inside an event:            *)
(* "retry:5\nid:1\ndata:a\n\nevent:u\ndata:b\nda".                         *)
(***************************************************************************)
PartialText ==
    <<"r","e","t","r","y",":","5","\n",
      "i","d",":","1","\n",
      "d","a","t","a",":","a","\n","\n",
      "e","v","e","n","t",":","u","\n",
      "d","a","t","a",":","b","\n",
      "d","a">>
PartialBody == Encode(PartialText)

InitPartial ==
    /\ Constructed
    /\ server = [responses |-> {Accepted(PartialBody)}, limit |-> MaxResponses]

PartialSpec == InitPartial /\ [][Next]_vars

(***************************************************************************)
(* C26.  Partial events do not cross connections: the fields of an event   *)
(* that no blank line has ended when the body ends are never dispatched    *)
(* (every Message is the complete event, data "a" and type "message"), and *)
(* each accepted response starts with event type, data, pending id and     *)
(* leftover bytes empty, while #lastEventID and #reconnectionTime persist. *)
(***************************************************************************)
\* the one complete event of PartialBody
CompleteEvent(e) ==
    /\ e.kind = "message"
    /\ e.data = <<"a">>
    /\ e.type = TypeMessage
    /\ e.lastEventID = <<"1">>

\* this step is an accepted response with a body
Attached == Len(responseLog') > Len(responseLog) /\ pc' = "reading"

C26_PartialEventsDropped ==
    [][/\ \A i \in 1..Len(queue') :
             queue'[i].kind = "dispatch" => CompleteEvent(queue'[i].event)
       /\ parsed' <= Len(responseLog')
       /\ Attached =>
             /\ eventType' = EmptyText
             /\ data' = EmptyText
             /\ eventID' = Undefined
             /\ lastBuffer' = <<>>
             /\ lastEventID' = lastEventID
             /\ reconnectionTime' = reconnectionTime]_vars

\* the second connection delivered its first event, after the first one ended
\* with event:u and data:b pending
C26_Witness ==
    /\ Len(responseLog) = 2
    /\ parsed = 2
    /\ lastEventID = <<"1">>
    /\ reconnectionTime = 5
    /\ \E i \in 1..Len(queue) : queue[i].kind = "dispatch" /\ queue[i].serial = 2

(***************************************************************************)
(* C27.  Isolation of lifecycle subscribers: a handler known to the object *)
(* only through addEventListener("open", ...) or onopen is invoked for     *)
(* OpenEvents only, and one known only through                             *)
(* addEventListener("error", ...) or onerror for ErrorEvents only: a       *)
(* MessageEvent of type "open" or "error" does not reach them.  onmessage  *)
(* is invoked for every MessageEvent, whatever its type.                   *)
(***************************************************************************)
\* the handler is the on* field of kind k or in a list of its EventTarget
RegisteredWith(h, k) ==
    \/ on[k] = h
    \/ \E type \in EventTypes :
          \E i \in 1..Len(listeners[k][type]) : listeners[k][type][i] = h
\* the handler is registered for the lifecycle kind k and nowhere else
OnlyWith(h, k) ==
    /\ RegisteredWith(h, k)
    /\ \A other \in Kinds \ {k} : ~RegisteredWith(h, other)
\* the dispatch invoked the handler
Invoked(d, h) == \E i \in 1..Len(d.calls) : d.calls[i].listener = h

C27_LifecycleIsolation ==
    dispatched # <<>> =>
        LET d == dispatched[1]
        IN  /\ \A k \in {"open", "error"}, h \in Handlers :
                  OnlyWith(h, k) /\ Invoked(d, h) => d.event.kind = k
            /\ d.event.kind = "message" /\ on["message"] # Unset =>
                  \E i \in 1..Len(d.calls) :
                     d.calls[i] = Call(on["message"], d.event, "on")

\* a MessageEvent of type "open" went to onmessage and not to the handler
\* added for "open"
C27_Witness ==
    /\ dispatched # <<>>
    /\ dispatched[1].event.kind = "message"
    /\ dispatched[1].event.type = TypeOpen
    /\ on["message"] = "f"
    /\ OnlyWith("g", "open")
    /\ listeners["open"][TypeOpen] = <<"g">>
    /\ dispatched[1].calls = <<Call("f", dispatched[1].event, "on")>>

=============================================================================
